---- MODULE Spec2Model ----
(***************************************************************************)
(* Entity resolution of geotagged points: deduplicate_points and           *)
(* names_are_similar of src/1.IMPORTS.                                     *)
(*                                                                         *)
(* A name is a sequence of one-character strings.  A geometry is a point   *)
(* with rational coordinates x/den, y/den tagged with its coordinate       *)
(* reference.  A similarity threshold is a fraction <<num, den>>.          *)
(***************************************************************************)
EXTENDS Integers, Sequences, FiniteSets, TLC

\* ------------------------------------------------------------------ bounds
\* largest number of records in one input collection
MaxPoints == 3
\* longest name drawn when names_are_similar is exercised on its own
MaxNameLen == 3

\* ------------------------------------------------------------- input sets
Alphabet == {"a", "b", "c"}

\* names the input collections are built from (original case): lower-cased,
\* "ab" is inside "abc" and "abd", and "abc", "abd" have ratio 4/6
Names == { <<"A", "b">>, <<"a", "b", "c">>, <<"a", "b", "d">> }

\* positions of the input points, in units of the geographic reference
Coords == { <<0, 0>>, <<1, 0>>, <<1, 1>> }

\* the literal "Unnamed POI"
UNNAMED == <<"U", "n", "n", "a", "m", "e", "d", " ", "P", "O", "I">>

\* the literal "unknown"
UNKNOWN == <<"u", "n", "k", "n", "o", "w", "n">>

\* name and sub_category (a value of the railway tag) of the records the
\* input collections are built from
Observations ==
  { [name |-> <<"A", "b">>, sub_category |-> <<"s", "t", "a", "t", "i", "o", "n">>],
    [name |-> <<"A", "b">>, sub_category |-> <<"h", "a", "l", "t">>],
    [name |-> <<"a", "b", "c">>, sub_category |-> <<"s", "t", "a", "t", "i", "o", "n">>],
    [name |-> <<"a", "b", "d">>, sub_category |-> <<"h", "a", "l", "t">>] }

\* the names of the documented examples
CentralStation == <<"C", "e", "n", "t", "r", "a", "l", " ", "S", "t", "a", "t", "i", "o", "n">>
CentralStn == <<"C", "e", "n", "t", "r", "a", "l", " ", "S", "t", "n">>
StnNorth == <<"S", "t", "n", " ", "N", "o", "r", "t", "h">>
Duomo == <<"d", "u", "o", "m", "o">>
DuomoStation == <<"d", "u", "o", "m", "o", " ", "s", "t", "a", "t", "i", "o", "n">>

\* the default of similarity_threshold, 0.6, as a fraction
DefaultThreshold == <<3, 5>>

\* similarity_threshold values, as fractions num/den
Thresholds == { DefaultThreshold, <<1, 1>> }

\* distance_threshold_m values: with two metres to the unit, neighbours on
\* the grid are exactly at the radius and diagonal ones beyond it
Distances == {2}

GEO_CRS == "EPSG:4326"
METRIC_CRS == "EPSG:32632"

\* arguments no caller should pass: an identifier pyproj does not resolve,
\* a radius that is not positive, a similarity threshold above 1
BAD_CRS == "EPSG:0"

BadDistances == {0}

BadThresholds == { <<3, 2>> }

\* --------------------------------------------------------------- helpers
Range(s) == { s[k] : k \in 1..Len(s) }

Min(S) == CHOOSE m \in S : \A o \in S : m <= o

Max(S) == CHOOSE m \in S : \A o \in S : m >= o

RECURSIVE Gcd(_, _)
Gcd(m, n) == IF n = 0 THEN m ELSE Gcd(n, m % n)

RECURSIVE SumOver(_, _)
\* sum of f[e] over the elements e of the finite set S
SumOver(f, S) ==
  IF S = {} THEN 0
  ELSE LET e == CHOOSE e \in S : TRUE IN f[e] + SumOver(f, S \ {e})

\* code point of a character (str comparison and sorting are by code point)
Ord(c) ==
  CASE c = " " -> 32
    [] c = "A" -> 65
    [] c = "B" -> 66
    [] c = "C" -> 67
    [] c = "N" -> 78
    [] c = "S" -> 83
    [] c = "a" -> 97
    [] c = "b" -> 98
    [] c = "c" -> 99
    [] c = "d" -> 100
    [] c = "e" -> 101
    [] c = "h" -> 104
    [] c = "i" -> 105
    [] c = "l" -> 108
    [] c = "n" -> 110
    [] c = "o" -> 111
    [] c = "r" -> 114
    [] c = "s" -> 115
    [] c = "t" -> 116
    [] c = "u" -> 117
    [] c = "w" -> 119
    [] c = "k" -> 107

Chr(n) == CHOOSE c \in {" ", "A", "B", "C", "N", "S", "a", "b", "c", "d", "e", "h",
                        "i", "k", "l", "n", "o", "r", "s", "t", "u", "w"} : Ord(c) = n

\* str.lower() on one character: A..Z move up by 32, the rest stay
LowerChar(c) == IF Ord(c) >= 65 /\ Ord(c) <= 90 THEN Chr(Ord(c) + 32) ELSE c

\* str.lower()
Lower(s) == [k \in 1..Len(s) |-> LowerChar(s[k])]

\* s < t in Python's string order
StrLess(s, t) ==
  \E k \in 1..(Len(s) + 1) :
    /\ k <= Len(t)
    /\ \A m \in 1..(k - 1) : s[m] = t[m]
    /\ (k = Len(s) + 1 \/ Ord(s[k]) < Ord(t[k]))

\* a plausible slip: the empty string is not taken to be in any string
IsSubstringNonEmpty(a, b) ==
  /\ a # <<>>
  /\ \E o \in 0..(Len(b) - Len(a)) : \A k \in 1..Len(a) : b[o + k] = a[k]

\* a in b for strings
IsSubstring(a, b) ==
  \E o \in 0..(Len(b) - Len(a)) : \A k \in 1..Len(a) : b[o + k] = a[k]

\* ------------------------------------------------ difflib.SequenceMatcher
RECURSIVE RunLength(_, _, _, _, _, _)
\* length of the common run of a and b starting at a[ai], b[bj], inside
\* a[ai..ahi], b[bj..bhi]
RunLength(a, ai, ahi, b, bj, bhi) ==
  IF ai > ahi \/ bj > bhi \/ a[ai] # b[bj] THEN 0
  ELSE 1 + RunLength(a, ai + 1, ahi, b, bj + 1, bhi)

\* SequenceMatcher.find_longest_match without junk: the longest block; of
\* those the one starting earliest in a; of those the earliest in b
find_longest_match(a, alo, ahi, b, blo, bhi) ==
  LET Blocks == { [i |-> ai, j |-> bj, k |-> RunLength(a, ai, ahi, b, bj, bhi)] :
                  ai \in alo..ahi, bj \in blo..bhi }
  IN IF Blocks = {} THEN [i |-> alo, j |-> blo, k |-> 0]
     ELSE CHOOSE m \in Blocks :
            \A o \in Blocks :
              \/ m.k > o.k
              \/ m.k = o.k /\ m.i < o.i
              \/ m.k = o.k /\ m.i = o.i /\ m.j <= o.j

RECURSIVE MatchedChars(_, _, _, _, _, _)
\* SequenceMatcher.get_matching_blocks: total size of the blocks found by
\* taking the longest match and recursing to its left and to its right
MatchedChars(a, alo, ahi, b, blo, bhi) ==
  IF alo > ahi \/ blo > bhi THEN 0
  ELSE LET m == find_longest_match(a, alo, ahi, b, blo, bhi)
       IN IF m.k = 0 THEN 0
          ELSE m.k + MatchedChars(a, alo, m.i - 1, b, blo, m.j - 1)
                   + MatchedChars(a, m.i + m.k, ahi, b, m.j + m.k, bhi)

\* SequenceMatcher.ratio() >= threshold: ratio is 2*M/T, and 1.0 when T = 0
RatioAtLeast(a, b, threshold) ==
  LET M == MatchedChars(a, 1, Len(a), b, 1, Len(b))
      T == Len(a) + Len(b)
  IN IF T = 0 THEN threshold[1] <= threshold[2]
     ELSE 2 * M * threshold[2] >= threshold[1] * T

\* a plausible slip: the substring shortcut is dropped
names_are_similar_ratio_only(name_a, name_b, threshold) ==
  RatioAtLeast(name_a, name_b, threshold)

names_are_similar(name_a, name_b, threshold) ==
  \/ IsSubstring(name_a, name_b)
  \/ IsSubstring(name_b, name_a)
  \/ RatioAtLeast(name_a, name_b, threshold)

\* ----------------------------------------------------------- geometries
\* the point (x/den, y/den) in lowest terms
Normalize(g) ==
  LET ax == IF g.x < 0 THEN 0 - g.x ELSE g.x
      ay == IF g.y < 0 THEN 0 - g.y ELSE g.y
      c  == Gcd(Gcd(ax, ay), g.den)
  IN [crs |-> g.crs, x |-> g.x \div c, y |-> g.y \div c, den |-> g.den \div c]

Point(crs, c) == [crs |-> crs, x |-> c[1], y |-> c[2], den |-> 1]

\* GeoDataFrame.to_crs on one geometry.  The projection is abstracted to a
\* change of unit: one unit of the geographic reference is two metres.
to_crs(g, crs) ==
  IF g.crs = crs THEN g
  ELSE IF crs # GEO_CRS
       THEN Normalize([crs |-> crs, x |-> 2 * g.x, y |-> 2 * g.y, den |-> g.den])
       ELSE Normalize([crs |-> crs, x |-> g.x, y |-> g.y, den |-> 2 * g.den])

RECURSIVE LcmOver(_)
\* least common multiple of a finite set of positive integers
LcmOver(S) ==
  IF S = {} THEN 1
  ELSE LET e == CHOOSE e \in S : TRUE
           r == LcmOver(S \ {e})
       IN (e * r) \div Gcd(e, r)

\* union_all().centroid of point geometries: the union keeps each distinct
\* point once, and the centroid of a multi-point is the mean of its points
Centroid(geoms) ==
  LET P == Range(geoms)
      C == LcmOver({ p.den : p \in P })
  IN Normalize([crs |-> geoms[1].crs,
                x   |-> SumOver([p \in P |-> p.x * (C \div p.den)], P),
                y   |-> SumOver([p \in P |-> p.y * (C \div p.den)], P),
                den |-> C * Cardinality(P)])

\* squared Euclidean distance of p and q is at most eps squared
WithinEps(p, q, eps) ==
  LET dx == p.x * q.den - q.x * p.den
      dy == p.y * q.den - q.y * p.den
  IN dx * dx + dy * dy <= eps * eps * p.den * p.den * q.den * q.den

\* ------------------------------------------------- sklearn.cluster.DBSCAN
\* radius_neighbors: the rows within eps of row p (p itself included)
Neighbors(geoms, p, eps) ==
  { q \in 1..Len(geoms) : WithinEps(geoms[p], geoms[q], eps) }

\* a plausible slip: a cluster is the seed's neighbourhood, not expanded
ExpandOnce(geoms, S, eps) ==
  S \cup UNION { Neighbors(geoms, q, eps) : q \in S }

RECURSIVE Expand(_, _, _)
\* the rows reached from the rows of S through neighbourhoods; with
\* min_samples = 1 every row is a core sample, so expansion never stops at
\* a border
Expand(geoms, S, eps) ==
  LET S2 == S \cup UNION { Neighbors(geoms, q, eps) : q \in S }
  IN IF S2 = S THEN S ELSE Expand(geoms, S2, eps)

RECURSIVE dbscan_inner(_, _, _, _, _)
\* rows are visited in order; an unlabelled row starts the next label and
\* gives it to everything reached from it.  labels[k] = -1 is "noise".
dbscan_inner(geoms, eps, row, labels, label_num) ==
  IF row > Len(geoms) THEN labels
  ELSE IF labels[row] # -1
       THEN dbscan_inner(geoms, eps, row + 1, labels, label_num)
       ELSE LET reached == Expand(geoms, {row}, eps)
            IN dbscan_inner(geoms, eps, row + 1,
                            [k \in 1..Len(geoms) |->
                               IF k \in reached /\ labels[k] = -1
                               THEN label_num ELSE labels[k]],
                            label_num + 1)

\* DBSCAN(eps, min_samples = 1).fit(coords).labels_
DBSCAN(geoms, eps) ==
  dbscan_inner(geoms, eps, 1, [k \in 1..Len(geoms) |-> -1], 0)

\* ------------------------------------------------------ pandas / builtins
\* number of occurrences of v in the sequence values
Count(values, v) == Cardinality({ k \in 1..Len(values) : values[k] = v })

\* the values of highest count
MostFrequent(values) ==
  { v \in Range(values) : \A o \in Range(values) : Count(values, v) >= Count(values, o) }

\* a plausible slip: the first value is taken, whatever its count
ModeFirstValue(values) == values[1]

\* Series.mode()[0]: mode() holds the values of highest count in sorted
\* order, so its first entry is the least of them
ModeFirst(values) ==
  CHOOSE v \in MostFrequent(values) :
    \A o \in MostFrequent(values) : o = v \/ StrLess(v, o)

\* a plausible slip: one naming rule for both paths, the most frequent name
MinByLenUnified(names) ==
  CHOOSE v \in MostFrequent(names) :
    \A o \in MostFrequent(names) : o = v \/ StrLess(v, o)

\* min(names, key=len): the first of the shortest
MinByLen(names) ==
  names[Min({ k \in 1..Len(names) : \A o \in 1..Len(names) : Len(names[k]) <= Len(names[o]) })]

\* a plausible slip: the members are counted by their distinct names
NodeCountDistinct(group) == Cardinality({ group[k].name : k \in 1..Len(group) })

\* lines 222 and 268: node_count is len() of the group or subgroup
NodeCount(group) == Len(group)

\* ----------------------------------------------------------------- state
VARIABLES
  pc,                    \* where deduplicate_points is: idle, groups, split, done
  points_gdf,            \* argument: the input frame
  distance_threshold_m,  \* argument
  similarity_threshold,  \* argument
  semantic_clustering,   \* argument
  points_metric,         \* the projected copy with its spatial_cluster column
  cluster_id,            \* key of the group the groupby loop is at
  items,                 \* group.to_dict('records') of the group being split
  processed_indices,     \* positions of items already in a subgroup
  i,                     \* position in items of the outer scan (from 1)
  cleaned_rows,          \* rows synthesized so far
  subgroups,             \* for each cleaned row, the input rows merged into it
  result,                \* the returned frame
  compared,              \* last names_are_similar call made on its own
  comparisons,           \* the names_are_similar calls of the split so far
  metric_crs,            \* argument
  raised,                \* the exception the call ended with, or NoException
  set_order,             \* for each list of labels whose most frequent tied in
                         \* this process, the one set() iterated to first
  earlier,               \* results of the earlier calls with these arguments
  per_cluster,           \* rows made for each cluster by a map over the clusters
  joined,                \* the frame concatenated from per_cluster
  raw_features,          \* what ox.features_from_polygon returned
  poi_raw_gdf,           \* what fetch_osmnx_points returned
  layer,                 \* the pipeline that runs: none, layer1, layer2
  at,                    \* where the pipeline is
  dataset,               \* the dataset or category the pipeline is at (from 1)
  fetched,               \* the frames fetched and not yet deduplicated
  cleaned,               \* the deduplicated frames so far
  log                    \* the external calls and the calls of
                         \* deduplicate_points, in the order they happened

\* what the caller of deduplicate_points keeps
\* what the pipeline holds of a fetch
fetchVars == <<raw_features, poi_raw_gdf>>

\* what main_layer1 and main_layer2 hold
pipelineVars == <<layer, at, dataset, fetched, cleaned, log>>

callerVars == <<earlier, per_cluster, joined, fetchVars, pipelineVars>>

vars == <<pc, points_gdf, distance_threshold_m, similarity_threshold,
          semantic_clustering, points_metric, cluster_id, items,
          processed_indices, i, cleaned_rows, subgroups, result, compared,
          comparisons, metric_crs, raised, set_order, callerVars>>

dedupVars == <<pc, points_gdf, distance_threshold_m, similarity_threshold,
               semantic_clustering, points_metric, cluster_id, items,
               processed_indices, i, cleaned_rows, subgroups, result,
               comparisons, metric_crs, raised, set_order, callerVars>>

\* a frame is its set of columns and its sequence of rows
Frame(columns, rows) == [columns |-> columns, rows |-> rows]

NoFrame == Frame({}, <<>>)

NoComparison == [called |-> FALSE]

NoException == "none"

\* the frames a caller can pass: name and geometry, with or without the
\* sub_category column, geometries in the geographic reference
InputRecords(columns) ==
  IF "sub_category" \in columns
  THEN { [name |-> o.name, geometry |-> Point(GEO_CRS, c),
          sub_category |-> o.sub_category] : o \in Observations, c \in Coords }
  ELSE [name : Names, geometry : { Point(GEO_CRS, c) : c \in Coords }]

FramesOver(columns) ==
  { Frame(columns, rows) :
      rows \in UNION { [1..n -> InputRecords(columns)] : n \in 0..MaxPoints } }

InputFrames ==
  FramesOver({"name", "geometry", "sub_category"}) \cup FramesOver({"name", "geometry"})

\* frames of two or more records without a name column
NamelessFrames ==
  { Frame({"geometry", "sub_category"}, rows) :
      rows \in UNION { [1..n -> [geometry : { Point(GEO_CRS, c) : c \in Coords },
                                 sub_category : { UNKNOWN }]] :
                         n \in 2..MaxPoints } }

\* dict.get(key, default)
Get(d, key, default) == IF key \in DOMAIN d THEN d[key] ELSE default

\* a plausible slip: the records of a group are taken last row first
GroupRowsReversed(frame, cid) ==
  LET rows == SelectSeq([k \in 1..Len(frame.rows) |-> k],
                        LAMBDA k : frame.rows[k].spatial_cluster = cid)
  IN [k \in 1..Len(rows) |-> rows[Len(rows) + 1 - k]]

\* the rows of points_metric in group cid, in frame order
GroupRows(frame, cid) ==
  SelectSeq([k \in 1..Len(frame.rows) |-> k],
            LAMBDA k : frame.rows[k].spatial_cluster = cid)

\* the group of key cid as a sequence of records
Group(frame, cid) ==
  LET rows == GroupRows(frame, cid)
  IN [k \in 1..Len(rows) |-> frame.rows[rows[k]]]

\* a plausible slip: the loop over the groups stops one key short
LastClusterShort(frame) ==
  Max({ frame.rows[k].spatial_cluster : k \in 1..Len(frame.rows) }) - 1

\* the keys groupby iterates over, ascending: 0 .. LastCluster
LastCluster(frame) == Max({ frame.rows[k].spatial_cluster : k \in 1..Len(frame.rows) })

Column(rows, col) == [k \in 1..Len(rows) |-> rows[k][col]]

Init ==
  /\ pc = "idle"
  /\ points_gdf = NoFrame
  /\ distance_threshold_m = 0
  /\ similarity_threshold = DefaultThreshold
  /\ semantic_clustering = TRUE
  /\ points_metric = NoFrame
  /\ cluster_id = 0
  /\ items = <<>>
  /\ processed_indices = {}
  /\ i = 1
  /\ cleaned_rows = <<>>
  /\ subgroups = <<>>
  /\ result = NoFrame
  /\ compared = NoComparison
  /\ comparisons = {}
  /\ metric_crs = METRIC_CRS
  /\ raised = NoException
  /\ set_order = <<>>
  /\ earlier = <<>>
  /\ per_cluster = <<>>
  /\ joined = NoFrame
  /\ raw_features = <<>>
  /\ poi_raw_gdf = NoFrame
  /\ layer = "none"
  /\ at = "start"
  /\ dataset = 1
  /\ fetched = <<>>
  /\ cleaned = <<>>
  /\ log = <<>>

\* the documented example: three records at one place, in this order
ExampleFrame ==
  Frame({"name", "geometry", "sub_category"},
        [k \in 1..3 |->
           [name |-> <<CentralStation, CentralStn, StnNorth>>[k],
            geometry |-> Point(GEO_CRS, <<0, 0>>),
            sub_category |-> <<"s", "t", "a", "t", "i", "o", "n">>]])

\* the threshold the example is resolved at, 0.3, where "central stn" and
\* "stn north" are similar (ratio 6/20)
ExampleThreshold == <<3, 10>>

\* similarity_threshold 0
ZeroThreshold == <<0, 1>>

\* frames of two or more records some of which may have the empty string
\* for a name, at two places out of reach of each other; the other names
\* have no character in common
EmptyNameFrames ==
  { Frame({"name", "geometry", "sub_category"}, rows) :
      rows \in UNION { [1..n -> [name : { <<>>, <<"a", "b", "c">>, <<"S", "t", "n">> },
                                 geometry : { Point(GEO_CRS, <<0, 0>>),
                                              Point(GEO_CRS, <<1, 1>>) },
                                 sub_category : { UNKNOWN }]] :
                         n \in 2..MaxPoints } }

\* the arguments of a call are acceptable: a caller that switches the
\* semantic split off leaves similarity_threshold at its default
Accepted(t, sem) == sem \/ t = DefaultThreshold

\* a plausible slip: no early return, the single record is synthesized into
\* an entity like any other group
SynthesizeTrivial(gdf, d, t, sem) ==
  /\ points_gdf' = gdf
  /\ distance_threshold_m' = d
  /\ similarity_threshold' = t
  /\ semantic_clustering' = sem
  /\ result' = Frame({"name", "geometry", "sub_category", "node_count"},
                     [k \in 1..Len(gdf.rows) |->
                        [name |-> gdf.rows[k].name,
                         geometry |-> gdf.rows[k].geometry,
                         sub_category |-> Get(gdf.rows[k], "sub_category", UNKNOWN),
                         node_count |-> 1]])
  /\ pc' = "done"
  /\ UNCHANGED <<points_metric, cluster_id, items, processed_indices, i,
                 cleaned_rows, subgroups, compared, comparisons>>

\* lines 187-190: at most one record, the argument itself is returned
ReturnInput(gdf, d, t, sem) ==
  /\ points_gdf' = gdf
  /\ distance_threshold_m' = d
  /\ similarity_threshold' = t
  /\ semantic_clustering' = sem
  /\ result' = gdf
  /\ pc' = "done"
  /\ UNCHANGED <<points_metric, cluster_id, items, processed_indices, i,
                 cleaned_rows, subgroups, compared, comparisons>>

\* a call with at most one record: the early return comes before any use of
\* distance_threshold_m, metric_crs or similarity_threshold, whatever they are
CallTrivial ==
  /\ pc = "idle"
  /\ \E gdf \in InputFrames, d \in Distances \cup BadDistances,
        t \in Thresholds \cup BadThresholds, sem \in BOOLEAN,
        crs \in {METRIC_CRS, BAD_CRS} :
       /\ Len(gdf.rows) <= 1
       /\ Accepted(t, sem)
       /\ ReturnInput(gdf, d, t, sem)
       /\ metric_crs' = crs
       /\ raised' = NoException
  /\ UNCHANGED <<set_order, callerVars>>

\* a plausible slip: DBSCAN is run on the coordinates as given, so the
\* radius is taken in units of the geographic reference
ClusteredUnprojected(gdf, d) ==
  LET projected == [k \in 1..Len(gdf.rows) |->
                      [gdf.rows[k] EXCEPT !.geometry = to_crs(@, METRIC_CRS)]]
      labels == DBSCAN(Column(gdf.rows, "geometry"), d)
  IN Frame(gdf.columns \cup {"spatial_cluster"},
           [k \in 1..Len(projected) |->
              [c \in DOMAIN projected[k] \cup {"spatial_cluster"} |->
                 IF c = "spatial_cluster" THEN labels[k] ELSE projected[k][c]]])

\* lines 192-201: the projected copy of gdf with its spatial_cluster column
Clustered(gdf, d) ==
  LET projected == [k \in 1..Len(gdf.rows) |->
                      [gdf.rows[k] EXCEPT !.geometry = to_crs(@, METRIC_CRS)]]
      labels == DBSCAN(Column(projected, "geometry"), d)
  IN Frame(gdf.columns \cup {"spatial_cluster"},
           [k \in 1..Len(projected) |->
              [c \in DOMAIN projected[k] \cup {"spatial_cluster"} |->
                 IF c = "spatial_cluster" THEN labels[k] ELSE projected[k][c]]])

\* a plausible slip: no copy is made, the frame passed in is projected and
\* gets the spatial_cluster column
StartGroupsInPlace(gdf, d, t, sem) ==
  /\ points_gdf' = Clustered(gdf, d)
  /\ distance_threshold_m' = d
  /\ similarity_threshold' = t
  /\ semantic_clustering' = sem
  /\ points_metric' = Clustered(gdf, d)
  /\ cleaned_rows' = <<>>
  /\ subgroups' = <<>>
  /\ cluster_id' = 0
  /\ comparisons' = {}
  /\ pc' = "groups"
  /\ UNCHANGED <<items, processed_indices, i, result, compared>>

\* lines 192-203: project a copy, label it with DBSCAN, start the groupby
StartGroups(gdf, d, t, sem) ==
  /\ points_gdf' = gdf
  /\ distance_threshold_m' = d
  /\ similarity_threshold' = t
  /\ semantic_clustering' = sem
  /\ points_metric' = Clustered(gdf, d)
  /\ cleaned_rows' = <<>>
  /\ subgroups' = <<>>
  /\ cluster_id' = 0
  /\ comparisons' = {}
  /\ pc' = "groups"
  /\ UNCHANGED <<items, processed_indices, i, result, compared>>

\* a call with two or more records: any input frame, the example, or a
\* frame with empty names
CallCluster ==
  /\ pc = "idle"
  /\ \/ \E gdf \in InputFrames, d \in Distances, t \in Thresholds, sem \in BOOLEAN :
          /\ Len(gdf.rows) > 1
          /\ Accepted(t, sem)
          /\ StartGroups(gdf, d, t, sem)
     \/ \E d \in Distances : StartGroups(ExampleFrame, d, ExampleThreshold, TRUE)
     \/ \E d \in Distances, t \in BadThresholds :
          StartGroups(ExampleFrame, d, t, TRUE)
     \/ \E gdf \in EmptyNameFrames, d \in Distances,
           t \in Thresholds \cup {ZeroThreshold} :
          StartGroups(gdf, d, t, TRUE)
  /\ metric_crs' = METRIC_CRS
  /\ raised' = NoException
  /\ UNCHANGED <<set_order, callerVars>>

\* a call with two or more records whose metric_crs pyproj does not resolve
\* (to_crs of line 193 raises) or whose distance_threshold_m is not positive
\* (DBSCAN of lines 196-200 refuses eps), or whose frame has no name column
\* (group['name'] of line 213 and d['name'] of line 254 raise at the first
\* group, split or not): the library's exception leaves the function,
\* nothing is returned.  The other two arguments play no part
\* and are left at the values the pipelines pass.
CallRaises ==
  /\ pc = "idle"
  /\ \/ \E gdf \in InputFrames, d \in Distances \cup BadDistances,
           crs \in {METRIC_CRS, BAD_CRS} :
       /\ Len(gdf.rows) > 1
       /\ \/ crs = BAD_CRS /\ raised' = "CRSError"
          \/ crs # BAD_CRS /\ d \in BadDistances /\ raised' = "ValueError"
       /\ points_gdf' = gdf
       /\ distance_threshold_m' = d
       /\ metric_crs' = crs
     \/ \E gdf \in NamelessFrames, d \in Distances :
          /\ raised' = "KeyError"
          /\ points_gdf' = gdf
          /\ distance_threshold_m' = d
          /\ metric_crs' = METRIC_CRS
  /\ similarity_threshold' = DefaultThreshold
  /\ semantic_clustering' = TRUE
  /\ pc' = "raised"
  /\ UNCHANGED <<points_metric, cluster_id, items, processed_indices, i,
                 cleaned_rows, subgroups, result, compared, comparisons,
                 set_order, callerVars>>

\* lines 212-223: the row made of a group that is not split
GroupRow(group, columns) ==
  LET names == Column(group, "name")
      centroid == Centroid(Column(group, "geometry"))
      name == IF MostFrequent(names) # {} THEN ModeFirst(names)
              ELSE group[1].name
      sub_category ==
        IF "sub_category" \in columns
           /\ MostFrequent(Column(group, "sub_category")) # {}
        THEN ModeFirst(Column(group, "sub_category"))
        ELSE UNKNOWN
  IN [name |-> name, geometry |-> centroid, sub_category |-> sub_category,
      node_count |-> NodeCount(group)]

\* a plausible slip: the flag is not consulted, only a group of one record
\* skips the split
SkipSplitSingletonOnly(group, sem) == Len(group) = 1

\* line 211: len(group) == 1 or not semantic_clustering
SkipSplit(group, sem) == Len(group) = 1 \/ ~sem

\* lines 211-224: a group of one record, or any group when the semantic
\* split is off, becomes one row
KeepGroup ==
  /\ pc = "groups"
  /\ cluster_id <= LastCluster(points_metric)
  /\ \E group \in { Group(points_metric, cluster_id) } :
       /\ SkipSplit(group, semantic_clustering)
       /\ cleaned_rows' = Append(cleaned_rows, GroupRow(group, points_metric.columns))
  /\ subgroups' = Append(subgroups, GroupRows(points_metric, cluster_id))
  /\ cluster_id' = cluster_id + 1
  /\ UNCHANGED <<pc, points_gdf, distance_threshold_m, similarity_threshold,
                 semantic_clustering, points_metric, items, processed_indices,
                 i, result, compared, comparisons,
                 metric_crs, raised, set_order, callerVars>>

\* lines 228-231: a group of several records enters the semantic split
BeginSplit ==
  /\ pc = "groups"
  /\ cluster_id <= LastCluster(points_metric)
  /\ ~SkipSplit(Group(points_metric, cluster_id), semantic_clustering)
  /\ items' = Group(points_metric, cluster_id)
  /\ processed_indices' = {}
  /\ i' = 1
  /\ pc' = "split"
  /\ UNCHANGED <<points_gdf, distance_threshold_m, similarity_threshold,
                 semantic_clustering, points_metric, cluster_id, cleaned_rows,
                 subgroups, result, compared, comparisons,
                 metric_crs, raised, set_order, callerVars>>

\* lines 232-233: the position is already in a subgroup
SkipProcessed ==
  /\ pc = "split"
  /\ i <= Len(items)
  /\ i \in processed_indices
  /\ i' = i + 1
  /\ UNCHANGED <<pc, points_gdf, distance_threshold_m, similarity_threshold,
                 semantic_clustering, points_metric, cluster_id, items,
                 processed_indices, cleaned_rows, subgroups, result, compared, comparisons,
                 metric_crs, raised, set_order, callerVars>>

\* a plausible slip: the names are compared as written, not lower-cased
RECURSIVE ScanRawNames(_, _, _, _, _, _)
ScanRawNames(its, seed, j, processed, members, threshold) ==
  IF j > Len(its) THEN [members |-> members, processed |-> processed]
  ELSE IF j \in processed
       THEN ScanRawNames(its, seed, j + 1, processed, members, threshold)
       ELSE LET name_a == Get(its[seed], "name", <<>>)
                name_b == Get(its[j], "name", <<>>)
            IN IF names_are_similar(name_a, name_b, threshold)
               THEN ScanRawNames(its, seed, j + 1, processed \cup {j},
                                 Append(members, j), threshold)
               ELSE ScanRawNames(its, seed, j + 1, processed, members, threshold)

\* a plausible slip: a point that joins a subgroup is not marked as assigned
RECURSIVE ScanNoMark(_, _, _, _, _, _)
ScanNoMark(its, seed, j, processed, members, threshold) ==
  IF j > Len(its) THEN [members |-> members, processed |-> processed]
  ELSE IF j \in processed
       THEN ScanNoMark(its, seed, j + 1, processed, members, threshold)
       ELSE LET name_a == Lower(Get(its[seed], "name", <<>>))
                name_b == Lower(Get(its[j], "name", <<>>))
            IN IF names_are_similar(name_a, name_b, threshold)
               THEN ScanNoMark(its, seed, j + 1, processed,
                               Append(members, j), threshold)
               ELSE ScanNoMark(its, seed, j + 1, processed, members, threshold)

\* a plausible slip: each later point is compared with the member added last
\* (a chain) and not with the seed
RECURSIVE ScanChain(_, _, _, _, _, _)
ScanChain(its, seed, j, processed, members, threshold) ==
  IF j > Len(its) THEN [members |-> members, processed |-> processed]
  ELSE IF j \in processed
       THEN ScanChain(its, seed, j + 1, processed, members, threshold)
       ELSE LET name_a == Lower(Get(its[members[Len(members)]], "name", <<>>))
                name_b == Lower(Get(its[j], "name", <<>>))
            IN IF names_are_similar(name_a, name_b, threshold)
               THEN ScanChain(its, seed, j + 1, processed \cup {j},
                              Append(members, j), threshold)
               ELSE ScanChain(its, seed, j + 1, processed, members, threshold)

RECURSIVE Scan(_, _, _, _, _, _)
\* lines 240-250: the inner loop from position j on; members are positions
\* in its, the seed first
Scan(its, seed, j, processed, members, threshold) ==
  IF j > Len(its) THEN [members |-> members, processed |-> processed]
  ELSE IF j \in processed
       THEN Scan(its, seed, j + 1, processed, members, threshold)
       ELSE LET name_a == Lower(Get(its[seed], "name", <<>>))
                name_b == Lower(Get(its[j], "name", <<>>))
            IN IF names_are_similar(name_a, name_b, threshold)
               THEN Scan(its, seed, j + 1, processed \cup {j},
                         Append(members, j), threshold)
               ELSE Scan(its, seed, j + 1, processed, members, threshold)

\* line 262, max(set(sub_categories), key=sub_categories.count): what it can
\* return, given what the process has shown of its set order so far
FirstOfHighestCount(sub_categories, order) ==
  IF sub_categories \in DOMAIN order
  THEN { order[sub_categories] }
  ELSE MostFrequent(sub_categories)

\* the process's set order, once best has been returned for a list with a tie
Remember(order, sub_categories, best) ==
  IF Cardinality(MostFrequent(sub_categories)) > 1
  THEN (sub_categories :> best) @@ order
  ELSE order

\* line 255: the labels of a subgroup, "unknown" where a record has none
SubCategories(current_subgroup) ==
  [k \in 1..Len(current_subgroup) |->
     Get(current_subgroup[k], "sub_category", UNKNOWN)]

\* a plausible slip: the row is named from the lower-cased names the scan
\* compared
SubgroupRowLowered(current_subgroup, best_sub_category) ==
  [name |-> MinByLen([k \in 1..Len(current_subgroup) |->
                        Lower(current_subgroup[k].name)]),
   geometry |-> Centroid(Column(current_subgroup, "geometry")),
   sub_category |-> best_sub_category,
   node_count |-> NodeCount(current_subgroup)]

\* lines 252-269: the row made of a subgroup of the split
SubgroupRow(current_subgroup, best_sub_category) ==
  [name |-> MinByLen(Column(current_subgroup, "name")),
   geometry |-> Centroid(Column(current_subgroup, "geometry")),
   sub_category |-> best_sub_category,
   node_count |-> NodeCount(current_subgroup)]

\* lines 240-247: the positions the inner loop of seed hands to
\* names_are_similar, those after the seed that no subgroup holds yet (a
\* position that joins during the loop has been compared already)
ComparedWith(its, seed, processed) ==
  { j \in (seed + 1)..Len(its) : j \notin processed }

\* lines 235-269: an unassigned position seeds a subgroup, the later
\* unassigned positions are scanned, and the subgroup becomes one row.  The
\* category is the first of highest count in the iteration order of a set of
\* strings, which depends on the process's string hashing: any of them, and
\* the same one whenever the same list is met again in the process.
OpenSubgroup ==
  /\ pc = "split"
  /\ i <= Len(items)
  /\ i \notin processed_indices
  /\ \E scan \in { Scan(items, i, i + 1, processed_indices \cup {i}, <<i>>,
                        similarity_threshold) } :
       \E current_subgroup \in { [k \in 1..Len(scan.members) |-> items[scan.members[k]]] } :
         LET sub_categories == SubCategories(current_subgroup)
             rows == GroupRows(points_metric, cluster_id)
         IN /\ processed_indices' = scan.processed
            /\ \E best_sub_category \in FirstOfHighestCount(sub_categories, set_order) :
                 /\ cleaned_rows' = Append(cleaned_rows,
                                      SubgroupRow(current_subgroup, best_sub_category))
                 /\ set_order' = Remember(set_order, sub_categories, best_sub_category)
            /\ subgroups' = Append(subgroups,
                                   [k \in 1..Len(scan.members) |-> rows[scan.members[k]]])
  /\ comparisons' = comparisons \cup
                      { [cluster_id |-> cluster_id, i |-> i, j |-> j] :
                          j \in ComparedWith(items, i, processed_indices) }
  /\ i' = i + 1
  /\ UNCHANGED <<pc, points_gdf, distance_threshold_m, similarity_threshold,
                 semantic_clustering, points_metric, cluster_id, items,
                 result, compared, metric_crs, raised, callerVars>>

\* the outer loop of the split is over: on to the next group
EndSplit ==
  /\ pc = "split"
  /\ i > Len(items)
  /\ cluster_id' = cluster_id + 1
  /\ pc' = "groups"
  /\ UNCHANGED <<points_gdf, distance_threshold_m, similarity_threshold,
                 semantic_clustering, points_metric, items, processed_indices,
                 i, cleaned_rows, subgroups, result, compared, comparisons,
                 metric_crs, raised, set_order, callerVars>>

\* lines 271-274: the rows become a frame in the metric reference, which is
\* projected back to the geographic one
Return ==
  /\ pc = "groups"
  /\ cluster_id > LastCluster(points_metric)
  /\ result' = Frame({"name", "geometry", "sub_category", "node_count"},
                     [k \in 1..Len(cleaned_rows) |->
                        [cleaned_rows[k] EXCEPT !.geometry = to_crs(@, GEO_CRS)]])
  /\ pc' = "done"
  /\ UNCHANGED <<points_gdf, distance_threshold_m, similarity_threshold,
                 semantic_clustering, points_metric, cluster_id, items,
                 processed_indices, i, cleaned_rows, subgroups, compared, comparisons,
                 metric_crs, raised, set_order, callerVars>>

Next ==
  \/ CallTrivial
  \/ CallCluster
  \/ CallRaises
  \/ KeepGroup
  \/ BeginSplit
  \/ SkipProcessed
  \/ OpenSubgroup
  \/ EndSplit
  \/ Return

Spec == Init /\ [][Next]_vars

\* positions of the points of the fetched frames: two places out of reach
\* of each other
RepeatCoords == { <<0, 0>>, <<1, 1>> }

\* ---------------------------------------------------- fetch, then call
\* the features OpenStreetMap holds: a point, with or without a name tag,
\* with or without a value of the tag asked for
Features ==
  LET G == { Point(GEO_CRS, c) : c \in RepeatCoords }
      N == { <<"A", "b">>, <<"a", "b", "c">> }
      A == { <<"c", "a", "f", "e">> }
  IN [geometry : G] \cup [geometry : G, name : N] \cup [geometry : G, amenity : A]
       \cup [geometry : G, name : N, amenity : A]

RawFeatures == UNION { [1..n -> Features] : n \in 0..MaxPoints }

\* what the except branch of lines 161-163 returns
EmptyFetch == Frame({"name", "geometry", "sub_category"}, <<>>)

\* lines 128-163 on the features returned for tags = {"amenity": ...}.  No
\* feature (osmnx raises) and no name column (the selection of line 152
\* raises KeyError) both end in the except branch; line 155, the "Unnamed
\* POI" default, comes after the selection and is never reached.  Features
\* without a name are dropped by line 157.
fetch_osmnx_points(features) ==
  LET columns == UNION { DOMAIN features[k] : k \in 1..Len(features) }
      named == SelectSeq(features, LAMBDA f : "name" \in DOMAIN f)
  IN IF features = <<>> \/ "name" \notin columns
     THEN EmptyFetch
     ELSE Frame({"name", "geometry", "sub_category"},
                [k \in 1..Len(named) |->
                   [name |-> named[k].name,
                    geometry |-> to_crs(to_crs(named[k].geometry, "EPSG:3857"), GEO_CRS),
                    sub_category |-> Get(named[k], "amenity", UNKNOWN)]])

\* main_layer2.py line 80: the points of one category are fetched
Fetch ==
  /\ pc = "idle"
  /\ \E features \in RawFeatures :
       /\ raw_features' = features
       /\ poi_raw_gdf' = fetch_osmnx_points(features)
  /\ pc' = "fetched"
  /\ UNCHANGED <<points_gdf, distance_threshold_m, similarity_threshold,
                 semantic_clustering, points_metric, cluster_id, items,
                 processed_indices, i, cleaned_rows, subgroups, result,
                 comparisons, metric_crs, raised, set_order, compared,
                 earlier, per_cluster, joined, pipelineVars>>

\* main_layer2.py lines 83-85: nothing fetched, the category is skipped
SkipCategory ==
  /\ pc = "fetched"
  /\ Len(poi_raw_gdf.rows) = 0
  /\ pc' = "skipped"
  /\ UNCHANGED <<points_gdf, distance_threshold_m, similarity_threshold,
                 semantic_clustering, points_metric, cluster_id, items,
                 processed_indices, i, cleaned_rows, subgroups, result,
                 comparisons, metric_crs, raised, set_order, compared,
                 callerVars>>

\* main_layer2.py lines 90-96: the fetched points are deduplicated
CallOnFetched ==
  /\ pc = "fetched"
  /\ Len(poi_raw_gdf.rows) # 0
  /\ \E d \in Distances, t \in Thresholds :
       IF Len(poi_raw_gdf.rows) <= 1
       THEN ReturnInput(poi_raw_gdf, d, t, TRUE)
       ELSE StartGroups(poi_raw_gdf, d, t, TRUE)
  /\ metric_crs' = METRIC_CRS
  /\ raised' = NoException
  /\ UNCHANGED <<set_order, callerVars>>

NextFetch ==
  \/ Fetch
  \/ SkipCategory
  \/ CallOnFetched
  \/ KeepGroup
  \/ BeginSplit
  \/ SkipProcessed
  \/ OpenSubgroup
  \/ EndSplit
  \/ Return

SpecFetch == Init /\ [][NextFetch]_vars

\* ------------------------------------------------- the call made twice
\* the frames fetch_osmnx_points hands over: name, geometry, sub_category
FetchedFrames ==
  { Frame({"name", "geometry", "sub_category"}, rows) :
      rows \in UNION { [1..n -> { [name |-> o.name, geometry |-> Point(GEO_CRS, c),
                                   sub_category |-> o.sub_category] :
                                     o \in Observations, c \in RepeatCoords }] :
                         n \in 0..MaxPoints } }

\* the call as main_layer1 and main_layer2 make it, semantic_clustering=True
CallFetched ==
  /\ pc = "idle"
  /\ \E gdf \in FetchedFrames, d \in Distances, t \in Thresholds :
       IF Len(gdf.rows) <= 1
       THEN ReturnInput(gdf, d, t, TRUE)
       ELSE StartGroups(gdf, d, t, TRUE)
  /\ metric_crs' = METRIC_CRS
  /\ raised' = NoException
  /\ UNCHANGED <<set_order, callerVars>>

\* the caller keeps the result and makes the same call again, on the same
\* frame with the same configuration, in a later run of the pipeline: a new
\* process, whose string hashes are drawn anew
CallAgain ==
  /\ pc = "done"
  /\ earlier = <<>>
  /\ earlier' = Append(earlier, result)
  /\ set_order' = <<>>
  /\ IF Len(points_gdf.rows) <= 1
     THEN ReturnInput(points_gdf, distance_threshold_m, similarity_threshold,
                      semantic_clustering)
     ELSE StartGroups(points_gdf, distance_threshold_m, similarity_threshold,
                      semantic_clustering)
  /\ UNCHANGED <<metric_crs, raised, per_cluster, joined, fetchVars, pipelineVars>>

NextRepeat ==
  \/ CallFetched
  \/ CallAgain
  \/ KeepGroup
  \/ BeginSplit
  \/ SkipProcessed
  \/ OpenSubgroup
  \/ EndSplit
  \/ Return

SpecRepeat == Init /\ [][NextRepeat]_vars

\* --------------------------------------------- a map over the clusters
\* the variables of one call of deduplicate_points
callVars == <<pc, points_gdf, distance_threshold_m, similarity_threshold,
              semantic_clustering, points_metric, cluster_id, items,
              processed_indices, i, cleaned_rows, subgroups, result,
              comparisons, metric_crs, raised, set_order>>

RECURSIVE SplitEntities(_, _, _, _, _)
\* lines 231-269 on locals of their own: the rows the outer loop makes of
\* the items from position seed on.  A tie of labels is resolved as the
\* process resolved it before.
SplitEntities(its, seed, processed, threshold, order) ==
  IF seed > Len(its) THEN <<>>
  ELSE IF seed \in processed
       THEN SplitEntities(its, seed + 1, processed, threshold, order)
       ELSE LET scan == Scan(its, seed, seed + 1, processed \cup {seed}, <<seed>>,
                             threshold)
                current_subgroup == [k \in 1..Len(scan.members) |-> its[scan.members[k]]]
                best_sub_category ==
                  CHOOSE b \in FirstOfHighestCount(SubCategories(current_subgroup), order) : TRUE
            IN <<SubgroupRow(current_subgroup, best_sub_category)>>
                 \o SplitEntities(its, seed + 1, scan.processed, threshold, order)

\* lines 208-269, the body of the groupby loop for one group: its rows
ClusterEntities(group, columns, threshold, sem, order) ==
  IF SkipSplit(group, sem)
  THEN <<GroupRow(group, columns)>>
  ELSE SplitEntities(group, 1, {}, threshold, order)

\* a plausible slip: the results are put together in another order than
\* the order of the cluster ids
RECURSIVE ConcatReversed(_)
ConcatReversed(per) ==
  IF per = <<>> THEN <<>>
  ELSE ConcatReversed(Tail(per)) \o Head(per).rows

RECURSIVE ConcatInClusterOrder(_)
\* cleaned_rows holds the rows in the order of the groupby keys
ConcatInClusterOrder(per) ==
  IF per = <<>> THEN <<>>
  ELSE Head(per).rows \o ConcatInClusterOrder(Tail(per))

\* after the sequential call has returned, the same frame is handed to one
\* worker per spatial cluster
Fork ==
  /\ pc = "done"
  /\ Len(points_gdf.rows) > 1
  /\ per_cluster = <<>>
  /\ per_cluster' = [c \in 1..(LastCluster(points_metric) + 1) |->
                       [finished |-> FALSE, rows |-> <<>>]]
  /\ UNCHANGED <<callVars, compared, earlier, joined, fetchVars, pipelineVars>>

\* any worker that has not run yet processes its cluster
WorkCluster ==
  /\ \E c \in 1..Len(per_cluster) :
       /\ ~per_cluster[c].finished
       /\ per_cluster' =
            [per_cluster EXCEPT ![c] =
               [finished |-> TRUE,
                rows |-> ClusterEntities(Group(points_metric, c - 1),
                                         points_metric.columns, similarity_threshold,
                                         semantic_clustering, set_order)]]
  /\ UNCHANGED <<callVars, compared, earlier, joined, fetchVars, pipelineVars>>

\* all workers are through: their rows are concatenated and projected back,
\* as lines 271-274 do with cleaned_rows
Join ==
  /\ per_cluster # <<>>
  /\ \A c \in 1..Len(per_cluster) : per_cluster[c].finished
  /\ joined = NoFrame
  /\ \E rows \in { ConcatInClusterOrder(per_cluster) } :
       joined' = Frame({"name", "geometry", "sub_category", "node_count"},
                       [k \in 1..Len(rows) |->
                          [rows[k] EXCEPT !.geometry = to_crs(@, GEO_CRS)]])
  /\ UNCHANGED <<callVars, compared, earlier, per_cluster, fetchVars, pipelineVars>>

NextParallel ==
  \/ CallFetched
  \/ KeepGroup
  \/ BeginSplit
  \/ SkipProcessed
  \/ OpenSubgroup
  \/ EndSplit
  \/ Return
  \/ Fork
  \/ WorkCluster
  \/ Join

SpecParallel == Init /\ [][NextParallel]_vars

\* ------------------------------------------------------- the pipelines
\* the kinds of external call, as the specification sorts them: the two
\* fetches, persistence (to_parquet, to_file) and map rendering (plot_*)
FETCH_BOUNDARY == "fetch_boundary"
FETCH_POINTS == "fetch_points"
PERSIST == "persist"
RENDER_MAP == "render_map"

\* the start and the return of a call of deduplicate_points
DEDUP_START == "dedup_start"
DEDUP_RETURN == "dedup_return"

\* the features a fetch of the pipelines meets
PipelineFeatures ==
  { [geometry |-> Point(GEO_CRS, <<0, 0>>), name |-> <<"A", "b">>,
     amenity |-> <<"c", "a", "f", "e">>],
    [geometry |-> Point(GEO_CRS, <<0, 0>>), name |-> <<"a", "b", "c">>,
     amenity |-> <<"c", "a", "f", "e">>],
    [geometry |-> Point(GEO_CRS, <<1, 1>>), name |-> <<"A", "b">>] }

PipelineFrames ==
  { fetch_osmnx_points(features) :
      features \in UNION { [1..n -> PipelineFeatures] : n \in {0, 1, 2} } }

\* main_layer1 deduplicates metro, tram, train, fetched as metro, train, tram
Layer1Order == <<1, 3, 2>>

\* config["poi"]["categories"]
Categories == <<"food", "health">>

\* the number of calls the pipeline makes or can make
Datasets == IF layer = "layer1" THEN Len(Layer1Order) ELSE Len(Categories)

\* the frame the pipeline is about to deduplicate
Current == IF layer = "layer1" THEN fetched[Layer1Order[dataset]] ELSE fetched[1]

\* main_layer1.py line 27 and main_layer2.py line 26: one of the pipelines
\* is run
StartPipeline ==
  /\ layer = "none"
  /\ pc = "idle"
  /\ layer' \in {"layer1", "layer2"}
  /\ at' = "boundary"
  /\ UNCHANGED <<callVars, compared, earlier, per_cluster, joined, fetchVars,
                 dataset, fetched, cleaned, log>>

\* main_layer1.py lines 54-65, main_layer2.py lines 54-65: fetch_boundary,
\* then buffer_boundary, which is local
FetchBoundary ==
  /\ at = "boundary"
  /\ log' = Append(log, FETCH_BOUNDARY)
  /\ at' = "fetch"
  /\ UNCHANGED <<callVars, compared, earlier, per_cluster, joined, fetchVars,
                 layer, dataset, fetched, cleaned>>

\* main_layer1.py lines 78-80 (one of the three fetches; the removal of the
\* metro points from the train frame, lines 83-86, leaves a frame of
\* PipelineFrames), main_layer2.py line 80 (the fetch of category dataset)
FetchPoints ==
  /\ at = "fetch"
  /\ \E gdf \in PipelineFrames :
       fetched' = IF layer = "layer1" THEN Append(fetched, gdf) ELSE <<gdf>>
  /\ log' = Append(log, FETCH_POINTS)
  /\ at' = IF layer = "layer1" /\ Len(fetched) + 1 < Len(Layer1Order)
           THEN "fetch" ELSE "call"
  /\ UNCHANGED <<callVars, compared, earlier, per_cluster, joined, fetchVars,
                 layer, dataset, cleaned>>

\* main_layer2.py lines 83-85: no point in the category, no call
SkipEmpty ==
  /\ at = "call"
  /\ layer = "layer2"
  /\ Len(Current.rows) = 0
  /\ dataset' = dataset + 1
  /\ at' = IF dataset < Datasets THEN "fetch" ELSE "save"
  /\ UNCHANGED <<callVars, compared, earlier, per_cluster, joined, fetchVars,
                 layer, fetched, cleaned, log>>

\* main_layer1.py lines 95-101, 109-115, 123-129, main_layer2.py lines
\* 90-96: deduplicate_points is called and runs
CallDeduplicate ==
  /\ at = "call"
  /\ pc = "idle"
  /\ layer = "layer2" => Len(Current.rows) # 0
  /\ \E d \in Distances :
       IF Len(Current.rows) <= 1
       THEN ReturnInput(Current, d, DefaultThreshold, TRUE)
       ELSE StartGroups(Current, d, DefaultThreshold, TRUE)
  /\ metric_crs' = METRIC_CRS
  /\ raised' = NoException
  /\ log' = Append(log, DEDUP_START)
  /\ at' = "in_call"
  /\ UNCHANGED <<set_order, earlier, per_cluster, joined, fetchVars, layer, dataset,
                 fetched, cleaned>>

\* a plausible slip: each result is written out as soon as it is there
ReturnEventsSaving == <<DEDUP_RETURN, PERSIST>>

\* what happens when deduplicate_points returns: the result is assigned
ReturnEvents == <<DEDUP_RETURN>>

\* main_layer1.py lines 103, 117, 131, main_layer2.py lines 97-98: the call
\* has returned, the pipeline keeps its result
TakeResult ==
  /\ at = "in_call"
  /\ pc = "done"
  /\ pc' = "idle"
  /\ cleaned' = Append(cleaned, result)
  /\ log' = log \o ReturnEvents
  /\ IF layer = "layer1"
     THEN at' = "plot" /\ dataset' = dataset
     ELSE at' = (IF dataset < Datasets THEN "fetch" ELSE "save") /\ dataset' = dataset + 1
  /\ UNCHANGED <<points_gdf, distance_threshold_m, similarity_threshold,
                 semantic_clustering, points_metric, cluster_id, items,
                 processed_indices, i, cleaned_rows, subgroups, result,
                 comparisons, metric_crs, raised, set_order, compared,
                 earlier, per_cluster, joined, fetchVars, layer, fetched>>

\* main_layer1.py lines 104, 118, 132: plot_cleaned_comparison renders the
\* map of the dataset just deduplicated
PlotComparison ==
  /\ at = "plot"
  /\ log' = Append(log, RENDER_MAP)
  /\ dataset' = dataset + 1
  /\ at' = IF dataset < Datasets THEN "call" ELSE "save"
  /\ UNCHANGED <<callVars, compared, earlier, per_cluster, joined, fetchVars,
                 layer, fetched, cleaned>>

\* main_layer2.py lines 100-103: no category had a point, the run is over
EndEmpty ==
  /\ at = "save"
  /\ layer = "layer2"
  /\ cleaned = <<>>
  /\ at' = "end"
  /\ UNCHANGED <<callVars, compared, earlier, per_cluster, joined, fetchVars,
                 layer, dataset, fetched, cleaned, log>>

\* main_layer1.py lines 134-149, main_layer2.py lines 105-119: to_parquet,
\* then to_file
SaveOutputs ==
  /\ at = "save"
  /\ layer = "layer1" \/ cleaned # <<>>
  /\ log' = log \o <<PERSIST, PERSIST>>
  /\ at' = "render"
  /\ UNCHANGED <<callVars, compared, earlier, per_cluster, joined, fetchVars,
                 layer, dataset, fetched, cleaned>>

\* main_layer1.py lines 151-158, main_layer2.py lines 121-127: plot_transport
\* or plot_poi
RenderMap ==
  /\ at = "render"
  /\ log' = Append(log, RENDER_MAP)
  /\ at' = "end"
  /\ UNCHANGED <<callVars, compared, earlier, per_cluster, joined, fetchVars,
                 layer, dataset, fetched, cleaned>>

NextPipeline ==
  \/ StartPipeline
  \/ FetchBoundary
  \/ FetchPoints
  \/ SkipEmpty
  \/ CallDeduplicate
  \/ KeepGroup
  \/ BeginSplit
  \/ SkipProcessed
  \/ OpenSubgroup
  \/ EndSplit
  \/ Return
  \/ TakeResult
  \/ PlotComparison
  \/ EndEmpty
  \/ SaveOutputs
  \/ RenderMap

SpecPipeline == Init /\ [][NextPipeline]_vars

\* ------------------------------------------ names_are_similar on its own
RECURSIVE StringsUpTo(_)
\* the strings over Alphabet of length at most n
StringsUpTo(n) ==
  IF n = 0 THEN { <<>> }
  ELSE LET shorter == StringsUpTo(n - 1)
       IN shorter \cup { Append(w, c) : w \in shorter, c \in Alphabet }

NameStrings == StringsUpTo(MaxNameLen) \cup {Duomo, DuomoStation}

\* the two names and the threshold of the call are drawn at the start
InitNames ==
  /\ pc = "idle"
  /\ points_gdf = NoFrame
  /\ distance_threshold_m = 0
  /\ similarity_threshold = DefaultThreshold
  /\ semantic_clustering = TRUE
  /\ points_metric = NoFrame
  /\ cluster_id = 0
  /\ items = <<>>
  /\ processed_indices = {}
  /\ i = 1
  /\ cleaned_rows = <<>>
  /\ subgroups = <<>>
  /\ result = NoFrame
  /\ comparisons = {}
  /\ metric_crs = METRIC_CRS
  /\ raised = NoException
  /\ set_order = <<>>
  /\ earlier = <<>>
  /\ per_cluster = <<>>
  /\ joined = NoFrame
  /\ raw_features = <<>>
  /\ poi_raw_gdf = NoFrame
  /\ layer = "none"
  /\ at = "start"
  /\ dataset = 1
  /\ fetched = <<>>
  /\ cleaned = <<>>
  /\ log = <<>>
  /\ \E name_a \in NameStrings, name_b \in NameStrings,
        threshold \in Thresholds \cup { <<0, 1>> } :
       compared = [called |-> FALSE, name_a |-> name_a, name_b |-> name_b,
                   threshold |-> threshold]

\* lines 45-54
CompareNames ==
  /\ ~compared.called
  /\ compared' = [called |-> TRUE, name_a |-> compared.name_a,
                  name_b |-> compared.name_b, threshold |-> compared.threshold,
                  similar |-> names_are_similar(compared.name_a, compared.name_b,
                                                compared.threshold)]
  /\ UNCHANGED dedupVars

NextNames == CompareNames

SpecNames == InitNames /\ [][NextNames]_vars

\* ------------------------------------------------------------ properties
\* the position of input row r in the metric frame
MetricGeometry(r) == to_crs(points_gdf.rows[r].geometry, METRIC_CRS)

\* the metric distance of input rows p and q is at most distance_threshold_m
Near(p, q) ==
  LET gp == MetricGeometry(p)
      gq == MetricGeometry(q)
      dx == gp.x * gq.den - gq.x * gp.den
      dy == gp.y * gq.den - gq.y * gp.den
      dd == distance_threshold_m * gp.den * gq.den
  IN dx * dx + dy * dy <= dd * dd

RECURSIVE ChainFrom(_, _, _)
\* input rows p and q are linked by a chain of rows, none of them in
\* visited, whose consecutive metric distances are at most the radius
ChainFrom(p, q, visited) ==
  \/ p = q
  \/ \E r \in (1..Len(points_gdf.rows)) \ visited :
       Near(p, r) /\ ChainFrom(r, q, visited \cup {r})

Chained(p, q) == ChainFrom(p, q, {p})

InputRows == 1..Len(points_gdf.rows)

SumNodeCount(rows) == SumOver([k \in 1..Len(rows) |-> rows[k].node_count], 1..Len(rows))

\* C1: for every input collection, of any size, and both values of
\* semantic_clustering, every returned record carries a node_count and the
\* node_counts of the returned records add up to the number of input
\* records.
C1_NodeCountSumIsInputSize ==
  pc = "done" =>
    /\ \A k \in 1..Len(result.rows) : "node_count" \in DOMAIN result.rows[k]
    /\ SumNodeCount(result.rows) = Len(points_gdf.rows)

\* C2: an input of 0 or 1 records is returned unchanged: the result is the
\* input frame itself (same columns, same records, same geometries), and no
\* projected copy, cluster or synthesized row was made.
C2_TrivialInputReturnedUnchanged ==
  (pc = "done" /\ Len(points_gdf.rows) <= 1) =>
    /\ result = points_gdf
    /\ points_metric = NoFrame
    /\ cleaned_rows = <<>>
    /\ subgroups = <<>>

C2_Witness ==
  /\ pc = "done"
  /\ Len(points_gdf.rows) = 1
  /\ result.rows[1].geometry.crs = GEO_CRS

\* C3: for 2 or more points, every point gets a cluster id >= 0, two points
\* share a cluster id exactly when a chain of points with consecutive metric
\* distances <= the radius links them, and a point with no other point
\* within the radius is alone in its cluster.
C3_ClustersAreChainComponents ==
  (pc = "groups" /\ cluster_id = 0) =>
    \A p \in InputRows :
      /\ points_metric.rows[p].spatial_cluster >= 0
      /\ \A q \in InputRows :
           (points_metric.rows[p].spatial_cluster = points_metric.rows[q].spatial_cluster)
             <=> Chained(p, q)
      /\ (\A q \in InputRows \ {p} : ~Near(p, q)) =>
           \A q \in InputRows \ {p} :
             points_metric.rows[q].spatial_cluster # points_metric.rows[p].spatial_cluster

C3_Witness ==
  /\ pc = "groups"
  /\ cluster_id = 0
  /\ \E p, q \in InputRows :
       /\ ~Near(p, q)
       /\ points_metric.rows[p].spatial_cluster = points_metric.rows[q].spatial_cluster

\* C4: two input points that no chain of points with consecutive metric
\* distances <= distance_threshold_m links are never merged into one output
\* entity, whatever their names, the similarity threshold and the flag.
C4_UnlinkedPointsNeverMerged ==
  (pc = "done" /\ Len(points_gdf.rows) > 1) =>
    /\ Len(subgroups) = Len(result.rows)
    /\ \A k \in 1..Len(subgroups) :
         \A p, q \in Range(subgroups[k]) : Chained(p, q)

C4_Witness ==
  /\ pc = "done"
  /\ \E p, q \in InputRows :
       /\ ~Chained(p, q)
       /\ points_gdf.rows[p].name = points_gdf.rows[q].name
       /\ \E k \in 1..Len(subgroups) : p \in Range(subgroups[k]) /\ q \notin Range(subgroups[k])

\* the rows of spatial cluster c, and the returned rows made from them
ClusterRows(c) == { r \in InputRows : points_metric.rows[r].spatial_cluster = c }

RowsOfCluster(c) == { k \in 1..Len(subgroups) : Range(subgroups[k]) \cap ClusterRows(c) # {} }

\* C5: with semantic_clustering on, the subgroups the greedy scan makes of a
\* spatial cluster of 2 or more points partition it: no subgroup is empty or
\* reaches outside the cluster, every point of the cluster is in exactly one
\* subgroup, once; and the scan is over exactly when every point is assigned.
C5_SubgroupsPartitionCluster ==
  /\ (pc = "split" /\ i > Len(items)) =>
       /\ processed_indices = 1..Len(items)
       /\ LET c == cluster_id
          IN /\ Cardinality(ClusterRows(c)) >= 2
             /\ \A k \in RowsOfCluster(c) :
                  /\ subgroups[k] # <<>>
                  /\ Range(subgroups[k]) \subseteq ClusterRows(c)
                  /\ Cardinality(Range(subgroups[k])) = Len(subgroups[k])
             /\ \A r \in ClusterRows(c) :
                  Cardinality({ k \in RowsOfCluster(c) : r \in Range(subgroups[k]) }) = 1
  /\ (pc = "split" /\ i <= Len(items)) => 1..(i - 1) \subseteq processed_indices

C5_Witness ==
  /\ pc = "split"
  /\ i > Len(items)
  /\ Len(items) = 3
  /\ Cardinality(RowsOfCluster(cluster_id)) = 2

\* names_are_similar as the split calls it, on input rows p (seed) and q
SimilarRows(p, q) ==
  names_are_similar(Lower(points_gdf.rows[p].name), Lower(points_gdf.rows[q].name),
                    similarity_threshold)

\* spatial cluster c has exactly three rows A < B < C with B similar to the
\* seed A, C similar to B and C not similar to A
NonTransitiveTriple(c) ==
  /\ Cardinality(ClusterRows(c)) = 3
  /\ \E A, B, C \in ClusterRows(c) :
       /\ A < B /\ B < C
       /\ SimilarRows(A, B)
       /\ SimilarRows(B, C)
       /\ ~SimilarRows(A, C)

\* C6: a later point joins the open subgroup by comparison with the seed's
\* name only: a cluster in order A, B, C with B similar to A, C similar to B
\* and C not similar to A gives the two subgroups <<A, B>> and <<C>>.
C6_SeedOnlyComparison ==
  (pc = "done" /\ semantic_clustering /\ Len(points_gdf.rows) > 1) =>
    \A c \in 0..LastCluster(points_metric) :
      NonTransitiveTriple(c) =>
        \E A, B, C \in ClusterRows(c) :
          /\ A < B /\ B < C
          /\ \E k \in 1..(Len(subgroups) - 1) :
               /\ subgroups[k] = <<A, B>>
               /\ subgroups[k + 1] = <<C>>
               /\ RowsOfCluster(c) = {k, k + 1}

\* the documented example, resolved: Central Station, Central Stn | Stn North
C6_Witness ==
  /\ pc = "done"
  /\ points_gdf = ExampleFrame
  /\ NonTransitiveTriple(0)
  /\ subgroups = << <<1, 2>>, <<3>> >>
  /\ result.rows[2].name = StnNorth

\* b is prefix \o a \o suffix for some prefix and suffix
Contains(b, a) ==
  \E lo \in 1..(Len(b) + 1) :
    /\ lo + Len(a) - 1 <= Len(b)
    /\ SubSeq(b, lo, lo + Len(a) - 1) = a

\* C7: names_are_similar is true whenever one name is a substring of the
\* other, at every threshold, 1.0 included; when neither contains the other
\* it is true exactly when the similarity ratio is >= the threshold.
C7_SubstringShortCircuits ==
  compared.called =>
    /\ (Contains(compared.name_b, compared.name_a) \/ Contains(compared.name_a, compared.name_b))
         => compared.similar
    /\ (~Contains(compared.name_b, compared.name_a) /\ ~Contains(compared.name_a, compared.name_b))
         => (compared.similar <=> RatioAtLeast(compared.name_a, compared.name_b,
                                               compared.threshold))

\* "duomo" and "duomo station" at threshold 1.0, where the ratio (10/18) is
\* below the threshold
C7_Witness ==
  /\ compared.called
  /\ compared.name_a = Duomo
  /\ compared.name_b = DuomoStation
  /\ compared.threshold = <<1, 1>>
  /\ ~RatioAtLeast(Duomo, DuomoStation, <<1, 1>>)
  /\ compared.similar

\* returned row k was made on the path without semantic split: its spatial
\* cluster has one record, or semantic_clustering is off
NonSplitRow(k) ==
  \/ ~semantic_clustering
  \/ Cardinality(ClusterRows(points_metric.rows[subgroups[k][1]].spatial_cluster)) = 1

MemberNames(k) == [m \in 1..Len(subgroups[k]) |-> points_gdf.rows[subgroups[k][m]].name]

\* C8: on the path without semantic split the output name is the most
\* frequent member name, and when all member names are distinct it is the
\* first member's name in input order.
C8_ModeElseFirstName ==
  (pc = "done" /\ Len(points_gdf.rows) > 1) =>
    \A k \in 1..Len(result.rows) :
      NonSplitRow(k) =>
        \E names \in { MemberNames(k) } :
          /\ \A o \in Range(names) : Count(names, result.rows[k].name) >= Count(names, o)
          /\ Count(names, result.rows[k].name) >= 1
          /\ (\A o \in Range(names) : Count(names, o) = 1) => result.rows[k].name = names[1]

MemberCategories(k) ==
  [m \in 1..Len(subgroups[k]) |-> points_gdf.rows[subgroups[k][m]].sub_category]

\* C10: the sub_category of every returned entity is a label of highest
\* count among its members, on both paths; on the path without split and
\* without a sub_category column it is the literal "unknown".
C10_MostFrequentCategory ==
  (pc = "done" /\ Len(points_gdf.rows) > 1) =>
    \A k \in 1..Len(result.rows) :
      /\ "sub_category" \in points_gdf.columns =>
           \E cats \in { MemberCategories(k) } :
             /\ Count(cats, result.rows[k].sub_category) >= 1
             /\ \A o \in Range(cats) : Count(cats, result.rows[k].sub_category) >= Count(cats, o)
      /\ ("sub_category" \notin points_gdf.columns /\ NonSplitRow(k)) =>
           result.rows[k].sub_category = UNKNOWN

\* an entity of three members, two labels, whose first member carries the
\* rarer label
C10_Witness ==
  /\ pc = "done"
  /\ Len(points_gdf.rows) > 1
  /\ "sub_category" \in points_gdf.columns
  /\ \E k \in 1..Len(result.rows) :
       /\ Len(subgroups[k]) = 3
       /\ Count(MemberCategories(k), MemberCategories(k)[1]) = 1
       /\ Count(MemberCategories(k), result.rows[k].sub_category) = 2

\* C11: every entity returned for an input of 2 or more points has
\* node_count equal to the number of input points merged into it (the
\* members of the group or subgroup it was synthesized from), and that
\* number is at least 1.
C11_NodeCountIsSubgroupSize ==
  (pc = "done" /\ Len(points_gdf.rows) > 1) =>
    /\ Len(subgroups) = Len(result.rows)
    /\ \A k \in 1..Len(result.rows) :
         /\ result.rows[k].node_count = Len(subgroups[k])
         /\ result.rows[k].node_count >= 1

\* an entity of two members of one name next to an entity of one member
C11_Witness ==
  /\ pc = "done"
  /\ Len(points_gdf.rows) = 3
  /\ \E k, l \in 1..Len(result.rows) :
       /\ result.rows[k].node_count = 2
       /\ Cardinality(Range(MemberNames(k))) = 1
       /\ result.rows[l].node_count = 1

\* the spatial clusters of the call: the distinct labels DBSCAN gave
SpatialClusters == { points_metric.rows[r].spatial_cluster : r \in InputRows }

\* C12: when semantic_clustering is off, or a spatial cluster has exactly
\* one member, no name comparison is made for that cluster and it yields
\* exactly one entity, holding all its members; with semantic_clustering off
\* there are as many entities as spatial clusters.
C12_SplitSkipped ==
  (pc = "done" /\ Len(points_gdf.rows) > 1) =>
    /\ \A c \in SpatialClusters :
         (~semantic_clustering \/ Cardinality(ClusterRows(c)) = 1) =>
           /\ \A cmp \in comparisons : cmp.cluster_id # c
           /\ Cardinality(RowsOfCluster(c)) = 1
           /\ \A k \in RowsOfCluster(c) : Range(subgroups[k]) = ClusterRows(c)
    /\ ~semantic_clustering => Len(result.rows) = Cardinality(SpatialClusters)

\* the flag is off and a cluster holds two records of different names that
\* the split would have compared
C12_Witness ==
  /\ pc = "done"
  /\ Len(points_gdf.rows) > 1
  /\ ~semantic_clustering
  /\ comparisons = {}
  /\ \E c \in SpatialClusters :
       /\ Cardinality(ClusterRows(c)) >= 2
       /\ \E p, q \in ClusterRows(c) : points_gdf.rows[p].name # points_gdf.rows[q].name
       /\ Cardinality(RowsOfCluster(c)) = 1

\* the configuration of the call is valid: a resolvable reference, a
\* positive radius, a similarity threshold in [0, 1]
ValidConfiguration ==
  /\ metric_crs # BAD_CRS
  /\ distance_threshold_m > 0
  /\ similarity_threshold[1] >= 0
  /\ similarity_threshold[1] <= similarity_threshold[2]

\* C13: a call with an invalid coordinate-reference identifier, a distance
\* threshold <= 0 or a similarity threshold outside [0, 1] fails at once
\* with a ConfigurationError and returns nothing, for every input
\* collection, those of 0 or 1 records included.
C13_InvalidConfigurationFails ==
  (pc # "idle" /\ ~ValidConfiguration) =>
    /\ pc = "raised"
    /\ raised = "ConfigurationError"
    /\ result = NoFrame

\* C14: two calls on the same frame with the same configuration return the
\* same frame: the same entities in the same order with the same name,
\* sub_category, geometry and node_count, also when several labels tie for
\* most frequent in a split subgroup.
C14_RepeatedCallSameOutput ==
  (pc = "done" /\ earlier # <<>>) => result = earlier[1]

\* C15: the rows made of one spatial cluster depend only on that cluster's
\* members, in their input order, and on the configuration: workers that
\* process the clusters one by one in any order, each on the members of its
\* cluster alone, and whose rows are concatenated in cluster order, give the
\* frame the sequential loop gave.
C15_MapOverClustersSameOutput ==
  joined # NoFrame => joined = result

\* two clusters, one of them split into two subgroups
C15_Witness ==
  /\ joined # NoFrame
  /\ Len(per_cluster) = 2
  /\ comparisons # {}
  /\ Len(per_cluster[1].rows) + Len(per_cluster[2].rows) = 3

\* a frame with its sub_category values left out
WithoutCategory(frame) ==
  [k \in 1..Len(frame.rows) |->
     [name |-> frame.rows[k].name, geometry |-> frame.rows[k].geometry,
      node_count |-> frame.rows[k].node_count]]

\* the frame passed in is as the caller made it, and a second call is not
\* affected by the first
InputAsPassed ==
  /\ pc # "idle" =>
       /\ "spatial_cluster" \notin points_gdf.columns
       /\ \A k \in 1..Len(points_gdf.rows) :
            /\ "spatial_cluster" \notin DOMAIN points_gdf.rows[k]
            /\ points_gdf.rows[k].geometry.crs = GEO_CRS
  /\ (pc = "done" /\ earlier # <<>> /\ Len(points_gdf.rows) > 1) =>
       WithoutCategory(result) = WithoutCategory(earlier[1])
  /\ (pc = "done" /\ earlier # <<>> /\ Len(points_gdf.rows) <= 1) =>
       result = earlier[1]

\* C16: deduplicate_points never modifies the frame passed in: during and
\* after the call it has the records, names, geometries, categories and
\* columns it had (the cluster id goes to the projected copy only); and no
\* state survives a call: the same call made again starts from nothing and
\* gives the same entities (up to the choice among tied labels).
C16_InputUntouchedNothingKept ==
  /\ [][pc # "idle" => points_gdf' = points_gdf]_vars
  /\ []InputAsPassed

\* the second of two calls on three records has returned, after a split
C16_Witness ==
  /\ pc = "done"
  /\ earlier # <<>>
  /\ Len(points_gdf.rows) = 3
  /\ "spatial_cluster" \in points_metric.columns
  /\ comparisons # {}
  /\ Len(result.rows) = 2

\* the record the spec has fetch make of feature f: name and category as
\* tagged, the sentinels where the tag is absent
Defaulted(f) ==
  [name |-> Get(f, "name", UNNAMED), geometry |-> f.geometry,
   sub_category |-> Get(f, "amenity", UNKNOWN)]

\* C17: when the name or the category is absent from the records, nothing
\* is raised: every fetched feature becomes a record, with "Unnamed POI"
\* for a missing name and "unknown" for a missing category, and the records
\* go on to a deduplicated output (a category is skipped only when nothing
\* was fetched).
C17_MissingFieldsDefaulted ==
  /\ pc # "raised"
  /\ pc # "idle" =>
       poi_raw_gdf.rows = [k \in 1..Len(raw_features) |-> Defaulted(raw_features[k])]
  /\ pc = "skipped" => raw_features = <<>>

ExternalCalls == {FETCH_BOUNDARY, FETCH_POINTS, PERSIST, RENDER_MAP}

\* C18: in both pipelines every external call (boundary fetch, point fetch,
\* persistence, map rendering) comes before a call of deduplicate_points
\* starts or after it has returned, none between the start and the return
\* of a call; and persistence comes after all calls of the run have
\* returned.
C18_ExternalCallsOutsideCalls ==
  /\ pc \in {"groups", "split", "done"} /\ layer # "none" =>
       /\ log # <<>>
       /\ log[Len(log)] = DEDUP_START
  /\ \A a \in 1..(Len(log) - 1) : log[a] = DEDUP_START => log[a + 1] = DEDUP_RETURN
  /\ \A a \in 1..Len(log) : \A b \in (a + 1)..Len(log) :
       log[a] = PERSIST => log[b] \notin {DEDUP_START, DEDUP_RETURN}

\* layer 1 is through: three calls, a map rendered between two of them, a
\* split in the last one, persistence at the end
C18_Witness ==
  /\ layer = "layer1"
  /\ at = "end"
  /\ Len(cleaned) = 3
  /\ comparisons # {}
  /\ \E a \in 1..(Len(log) - 2) :
       /\ log[a] = DEDUP_RETURN
       /\ log[a + 1] = RENDER_MAP
       /\ log[a + 2] = DEDUP_START
  /\ \E a \in 1..Len(log) : log[a] = PERSIST

\* C19: in every subgroup the semantic split makes, the seed is the member
\* first in input order and every other member is name-equivalent to it
\* (names lower-cased, the seed as first argument); and of two subgroups of
\* one spatial cluster the seed of the later is not name-equivalent to the
\* seed of the earlier.
C19_SeedFirstMembersSimilarSeedsApart ==
  (pc = "done" /\ Len(points_gdf.rows) > 1) =>
    \A k \in 1..Len(subgroups) :
      ~NonSplitRow(k) =>
        /\ \A m \in 2..Len(subgroups[k]) :
             /\ subgroups[k][1] < subgroups[k][m]
             /\ SimilarRows(subgroups[k][1], subgroups[k][m])
        /\ \A o \in 1..Len(subgroups) :
             (/\ subgroups[o][1] < subgroups[k][1]
              /\ points_metric.rows[subgroups[o][1]].spatial_cluster
                   = points_metric.rows[subgroups[k][1]].spatial_cluster)
               => /\ o < k
                  /\ ~SimilarRows(subgroups[o][1], subgroups[k][1])

\* a cluster of three split in two: the first seed took the third point
\* past the second, which seeds the later subgroup although the third point
\* is name-equivalent to it as well
C19_Witness ==
  /\ pc = "done"
  /\ Len(points_gdf.rows) = 3
  /\ \E k \in 1..(Len(subgroups) - 1) :
       /\ ~NonSplitRow(k)
       /\ subgroups[k] = <<1, 3>>
       /\ subgroups[k + 1] = <<2>>
       /\ SimilarRows(2, 3)
       /\ points_gdf.rows[3].name # Lower(points_gdf.rows[3].name)

\* C20: for an input of 2 or more points whose records all carry a name
\* and a sub_category, the name of every returned entity is the name as
\* written (not lower-cased) of one of the members merged into it, and its
\* sub_category is the label of one of those members: nothing is invented
\* or taken from another subgroup.
C20_NameAndLabelFromMembers ==
  (/\ pc = "done"
   /\ Len(points_gdf.rows) > 1
   /\ {"name", "sub_category"} \subseteq points_gdf.columns) =>
    /\ Len(result.rows) = Len(subgroups)
    /\ \A k \in 1..Len(result.rows) :
         /\ result.rows[k].name \in Range(MemberNames(k))
         /\ result.rows[k].sub_category \in Range(MemberCategories(k))

\* a split made two entities of one cluster: one is named by a member's
\* name with its capital, and neither the name nor the label of the other
\* entity occurs among its members
C20_Witness ==
  /\ pc = "done"
  /\ Len(points_gdf.rows) = 3
  /\ {"name", "sub_category"} \subseteq points_gdf.columns
  /\ \E k, o \in 1..Len(result.rows) :
       /\ k # o
       /\ ~NonSplitRow(k)
       /\ Len(subgroups[k]) = 2
       /\ result.rows[k].name # Lower(result.rows[k].name)
       /\ result.rows[o].name \notin Range(MemberNames(k))
       /\ result.rows[o].sub_category \notin Range(MemberCategories(k))
       /\ points_metric.rows[subgroups[o][1]].spatial_cluster
            = points_metric.rows[subgroups[k][1]].spatial_cluster

\* the spatial cluster ids of the call
ClusterIds == { points_metric.rows[r].spatial_cluster : r \in InputRows }

\* how many entities the call returns for its input and radius when the
\* flag is sem
CountWith(sem) ==
  SumOver([c \in ClusterIds |->
             Len(ClusterEntities(Group(points_metric, c), points_metric.columns,
                                 similarity_threshold, sem, set_order))],
          ClusterIds)

\* C21: for an input of n >= 2 points the number of entities returned is at
\* least the number of spatial clusters and at most n, and for the same
\* input and radius the number returned with semantic_clustering true is
\* never smaller than the number returned with it false.
C21_CountBetweenClustersAndPoints ==
  (pc = "done" /\ Len(points_gdf.rows) > 1) =>
    \E n \in { Len(result.rows) } :
      /\ Cardinality(ClusterIds) <= n
      /\ n <= Len(points_gdf.rows)
      /\ n = CountWith(semantic_clustering)
      /\ semantic_clustering => n >= CountWith(FALSE)
      /\ ~semantic_clustering => n <= CountWith(TRUE)

\* a call with the flag on returned more entities than there are spatial
\* clusters, and fewer than there are points
C21_Witness ==
  /\ pc = "done"
  /\ Len(points_gdf.rows) = 3
  /\ semantic_clustering
  /\ Cardinality(ClusterIds) = 1
  /\ CountWith(FALSE) = 1
  /\ Len(result.rows) = 2

\* the spatial cluster of the members of returned row k
ClusterOf(k) == points_metric.rows[subgroups[k][1]].spatial_cluster

\* returned row k is the entity made of subgroups[k]: it sits at the
\* members' centroid and counts them
MadeOf(k) ==
  /\ result.rows[k].node_count = Len(subgroups[k])
  /\ result.rows[k].geometry =
       to_crs(Centroid([m \in 1..Len(subgroups[k]) |->
                          points_metric.rows[subgroups[k][m]].geometry]), GEO_CRS)

\* C22: the output for n >= 2 points is in ascending order of spatial
\* cluster id, and within one spatial cluster in the order of the seeds'
\* positions in the input; an entity of a lower cluster id never comes
\* after one of a higher cluster id.
C22_OutputInClusterThenSeedOrder ==
  (pc = "done" /\ Len(points_gdf.rows) > 1) =>
    /\ Len(result.rows) = Len(subgroups)
    /\ \A k \in 1..Len(result.rows) :
         /\ MadeOf(k)
         /\ \A m \in 2..Len(subgroups[k]) : subgroups[k][1] < subgroups[k][m]
         /\ \A o \in (k + 1)..Len(result.rows) :
              /\ ClusterOf(k) <= ClusterOf(o)
              /\ ClusterOf(k) = ClusterOf(o) => subgroups[k][1] < subgroups[o][1]

\* three entities of two clusters: the cluster of the first two has the
\* lower id, and its points are the first and the last of the input
C22_Witness ==
  /\ pc = "done"
  /\ Len(points_gdf.rows) = 3
  /\ Len(result.rows) = 3
  /\ subgroups = << <<1>>, <<3>>, <<2>> >>
  /\ ClusterOf(1) = 0
  /\ ClusterOf(2) = 0
  /\ ClusterOf(3) = 1

\* returned row k was made by a seed that takes everything: its name is
\* the empty string, or similarity_threshold is 0
TakesAll(k) ==
  \/ Lower(points_gdf.rows[subgroups[k][1]].name) = <<>>
  \/ similarity_threshold[1] = 0

\* C23: in the semantic split a seed whose name is the empty string takes
\* every later point of its spatial cluster that no subgroup holds yet,
\* whatever the point's name and the similarity threshold (the empty string
\* is in every name); so does every seed when similarity_threshold is 0.
C23_EmptySeedOrZeroThresholdTakesAll ==
  (pc = "done" /\ Len(points_gdf.rows) > 1) =>
    \A k \in 1..Len(subgroups) :
      (~NonSplitRow(k) /\ TakesAll(k)) =>
        \A q \in ClusterRows(ClusterOf(k)) :
          (/\ q > subgroups[k][1]
           /\ \A o \in 1..(k - 1) : q \notin Range(subgroups[o]))
            => q \in Range(subgroups[k])

\* at threshold 1 a seed with the empty name took two later points whose
\* names have nothing in common with each other
C23_Witness ==
  /\ pc = "done"
  /\ similarity_threshold = <<1, 1>>
  /\ \E k \in 1..Len(subgroups) :
       /\ ~NonSplitRow(k)
       /\ Len(subgroups[k]) = 3
       /\ points_gdf.rows[subgroups[k][1]].name = <<>>
       /\ points_gdf.rows[subgroups[k][2]].name = <<"S", "t", "n">>
       /\ points_gdf.rows[subgroups[k][3]].name = <<"a", "b", "c">>
       /\ ~SimilarRows(subgroups[k][2], subgroups[k][3])

====
